---- MODULE Spec2Model ----
\* Admin command layer of mc: `idp set`, `idp openid list`, `policy attach`
\* and `policy detach`.  One behaviour of Spec is one invocation of one
\* command.  A string is a sequence of one-character strings, so that
\* strings.Contains, strings.Join and len are computed and not assumed.
EXTENDS Integers, Sequences, FiniteSets, TLC

\* ---------------------------------------------------------------- bounds
MaxArgs == 5
MaxItems == 2

\* --------------------------------------------------------------- strings
ldap == <<"l", "d", "a", "p">>
openid == <<"o", "p", "e", "n", "i", "d">>
dex == <<"d", "e", "x">>
kv == <<"k", "=", "v">>
eq == <<"=">>
bob == <<"b", "o", "b">>
legal == <<"l", "e", "g", "a", "l">>
svc == <<"s", "v", "c">>
underscore == <<"_">>
arnx == <<"a", "r", "n", ":", "x">>
longName == <<"c", "o", "r", "p", "-", "k", "e", "y", "c", "l", "o", "a", "k">>
longARN == <<"a", "r", "n", ":", "m", "i", "n", "i", "o", ":", "i", "a", "m">>

\* Command-line tokens the invocations are drawn from.
Tokens == {<<>>, ldap, openid, dex, kv, eq}
\* Values of the --user and --group flags ("" when the flag is absent).
Users == {<<>>, bob}
Groups == {<<>>, legal}
\* Rows the server may return from ListIDPConfig.
ItemNames == {underscore, dex, svc, longName}
ItemARNs == {<<>>, arnx, longARN}
Items == [Name : ItemNames, RoleARN : ItemARNs, Enabled : BOOLEAN]

Commands == {"set", "list", "attach", "detach"}

SeqsUpTo(S, n) == UNION {[1..k -> S] : k \in 0..n}

\* ------------------------------------------------------- library helpers
\* cli.Args.Get(n): the n-th argument (0-based), "" when out of range.
Get(a, n) == IF n + 1 <= Len(a) THEN a[n + 1] ELSE <<>>

\* cli.Args.Tail(): everything after the first argument.
ArgsTail(a) == IF Len(a) >= 2 THEN SubSeq(a, 2, Len(a)) ELSE <<>>

\* strings.Contains(s, c) for a one-character c.
Contains(s, c) == \E i \in 1..Len(s) : s[i] = c

\* strings.Join(elems, " ").
RECURSIVE Join(_)
Join(elems) ==
    IF elems = <<>> THEN <<>>
    ELSE IF Len(elems) = 1 THEN elems[1]
    ELSE elems[1] \o <<" ">> \o Join(Tail(elems))

ValidIDPConfigTypes == {openid, ldap}
OpenidIDPCfg == openid

\* ------------------------------------------------------------ idp set
\* Variant: the arity test off by one.
SetArityOKLoose(a) == ~(Len(a) < 2)

\* mainAdminIDPSet: the arity test.
SetArityOK(a) == ~(Len(a) < 3)

\* validateIDType: TRUE when the type passes.
ValidIDType(idpType) == idpType \in ValidIDPConfigTypes

\* Variant: the name is taken but input is not advanced past it.
ParseCfgKeepName(a) ==
    IF ~Contains(Get(a, 2), "=")
    THEN [cfgName |-> Get(a, 2), inputCfg |-> Join(SubSeq(a, 3, Len(a)))]
    ELSE [cfgName |-> <<>>, inputCfg |-> Join(SubSeq(a, 3, Len(a)))]

\* mainAdminIDPSet: cfgName and inputCfg from the arguments.
ParseCfg(a) ==
    IF ~Contains(Get(a, 2), "=")
    THEN [cfgName |-> Get(a, 2), inputCfg |-> Join(SubSeq(a, 4, Len(a)))]
    ELSE [cfgName |-> <<>>, inputCfg |-> Join(SubSeq(a, 3, Len(a)))]

\* ------------------------------------------------------------ idp list
ListArityOK(a) == ~(Len(a) # 1)

headerName == <<"N", "a", "m", "e">>
headerRoleArn == <<"R", "o", "l", "e", "A", "r", "n">>
defaultName == <<"(", "d", "e", "f", "a", "u", "l", "t", ")">>
enabledWidth == 5
enabledOff == "red"
enabledOn == "green"

\* Variant: the name is measured as stored, `_` included.
RECURSIVE MeasureNameRaw(_, _)
MeasureNameRaw(i, maxNameWidth) ==
    IF i = <<>> THEN maxNameWidth
    ELSE MeasureNameRaw(Tail(i),
            IF maxNameWidth < Len(i[1].Name) THEN Len(i[1].Name)
            ELSE maxNameWidth)

\* idpCfgList.String: the measuring loop, name column.
RECURSIVE MeasureName(_, _)
MeasureName(i, maxNameWidth) ==
    IF i = <<>> THEN maxNameWidth
    ELSE LET name == IF i[1].Name = underscore THEN defaultName ELSE i[1].Name
         IN MeasureName(Tail(i),
                IF maxNameWidth < Len(name) THEN Len(name) ELSE maxNameWidth)

\* idpCfgList.String: the measuring loop, role-ARN column.
RECURSIVE MeasureRoleARN(_, _)
MeasureRoleARN(i, maxRoleARNWidth) ==
    IF i = <<>> THEN maxRoleARNWidth
    ELSE MeasureRoleARN(Tail(i),
            IF maxRoleARNWidth < Len(i[1].RoleARN) THEN Len(i[1].RoleARN)
            ELSE maxRoleARNWidth)

\* A lipgloss style with PaddingLeft(1), PaddingRight(1) and Width(w)
\* rendering text: the text has w - 2 columns; a longer text is wrapped.
Render(w, faint, text) ==
    [text |-> text, width |-> w, faint |-> faint, wrapped |-> Len(text) > w - 2]

\* idpCfgList.String: one line of the table per item.
RenderLine(item, nameW, arnW) ==
    [enabled |-> Render(enabledWidth, FALSE,
                        IF item.Enabled THEN <<enabledOn>> ELSE <<enabledOff>>),
     name |-> IF item.Name = underscore
              THEN Render(nameW, TRUE, defaultName)
              ELSE Render(nameW, FALSE, item.Name),
     arn |-> Render(arnW, FALSE, item.RoleARN)]

\* idpCfgList.String.
String(i) ==
    LET nameW == MeasureName(i, Len(headerName)) + 2
        arnW == MeasureRoleARN(i, Len(headerRoleArn)) + 2
    IN [maxNameWidth |-> nameW,
        maxRoleARNWidth |-> arnW,
        lines |-> [k \in 1..Len(i) |-> RenderLine(i[k], nameW, arnW)]]

\* ------------------------------------------------- policy attach/detach
PolicyArityOK(a) == ~(Len(a) < 2)

\* userAttachOrDetachPolicy: the request built from flags and arguments.
BuildReq(a, u, g) == [User |-> u, Group |-> g, Policies |-> ArgsTail(a)]

\* Variant: the principal is always taken from the user field.
UserOrGroupOfUser(r) == r.User

\* userAttachOrDetachPolicy: isGroup and userOrGroup.
IsGroupOf(r) == IF r.User = <<>> THEN TRUE ELSE FALSE
UserOrGroupOf(r) == IF IsGroupOf(r) THEN r.Group ELSE r.User

\* Variant: the loop runs over the policies from last to first.
PolicyMessagesReversed(r, op) ==
    [k \in 1..Len(r.Policies) |->
        [msg |-> "userPolicyMessage", op |-> op,
         Policy |-> r.Policies[Len(r.Policies) + 1 - k],
         UserOrGroup |-> UserOrGroupOf(r), IsGroup |-> IsGroupOf(r)]]

\* userAttachOrDetachPolicy: the messages printed by the loop on success.
PolicyMessages(r, op) ==
    [k \in 1..Len(r.Policies) |->
        [msg |-> "userPolicyMessage", op |-> op, Policy |-> r.Policies[k],
         UserOrGroup |-> UserOrGroupOf(r), IsGroup |-> IsGroupOf(r)]]

\* ----------------------------------------------------------------- state
VARIABLES
    cmd,        \* ctx.Command.Name
    args,       \* ctx.Args()
    user,       \* ctx.String("user")
    group,      \* ctx.String("group")
    pc,         \* position in the handler
    trace,      \* calls made so far, in order
    err,        \* newAdminClient's error: "unset", "nil", "error"
    e,          \* the admin RPC's error: "unset", "nil", "error"
    restart,    \* AddOrUpdateIDPConfig's first result
    result,     \* ListIDPConfig's first result
    out,        \* messages printed with printMsg
    fatals,     \* diagnostics printed by fatalIf
    helpShown,  \* showCommandHelpAndExit was called
    exitCode    \* the process exit code once pc = "exited"

vars == <<cmd, args, user, group, pc, trace, err, e, restart, result, out,
          fatals, helpShown, exitCode>>

input == <<cmd, args, user, group>>

Init ==
    /\ cmd \in Commands
    /\ args \in SeqsUpTo(Tokens, MaxArgs)
    /\ user \in (IF cmd \in {"attach", "detach"} THEN Users ELSE {<<>>})
    /\ group \in (IF cmd \in {"attach", "detach"} THEN Groups ELSE {<<>>})
    /\ pc = "start"
    /\ trace = <<>>
    /\ err = "unset"
    /\ e = "unset"
    /\ restart = FALSE
    /\ result = <<>>
    /\ out = <<>>
    /\ fatals = <<>>
    /\ helpShown = FALSE
    /\ exitCode = 0

\* showCommandHelpAndExit(ctx, code)
ShowCommandHelpAndExit(code) ==
    /\ helpShown' = TRUE
    /\ exitCode' = code
    /\ pc' = "exited"
    /\ trace' = Append(trace, [call |-> "showCommandHelpAndExit"])
    /\ UNCHANGED <<err, e, restart, result, out, fatals>>

\* fatalIf(err, msg) with a non-nil error: one diagnostic, exit status 1.
Fatal(msg) ==
    /\ fatals' = Append(fatals, msg)
    /\ exitCode' = 1
    /\ pc' = "exited"

\* return nil from the handler: the process ends with status 0.
ReturnNil ==
    /\ exitCode' = 0
    /\ pc' = "exited"

\* Variant: the error of newAdminClient is dropped and the run goes on.
NewAdminClientIgnoreErr(next) ==
    /\ trace' = Append(trace, [call |-> "newAdminClient", alias |-> Get(args, 0)])
    /\ err' \in {"nil", "error"}
    /\ pc' = next
    /\ UNCHANGED <<e, restart, result, out, helpShown, fatals, exitCode>>

\* newAdminClient(aliasedURL) followed by fatalIf(err, ...).
NewAdminClient(next) ==
    /\ trace' = Append(trace, [call |-> "newAdminClient", alias |-> Get(args, 0)])
    /\ \E r \in {"nil", "error"} :
        /\ err' = r
        /\ IF r = "error"
           THEN Fatal("Unable to initialize admin connection.")
           ELSE pc' = next /\ UNCHANGED <<fatals, exitCode>>
    /\ UNCHANGED <<e, restart, result, out, helpShown>>

\* ------------------------------------------------------ actions: idp set
SetCheckArgs ==
    /\ cmd = "set" /\ pc = "start"
    /\ IF SetArityOK(args)
       THEN /\ pc' = "client"
            /\ UNCHANGED <<trace, err, e, restart, result, out, fatals,
                           helpShown, exitCode>>
       ELSE ShowCommandHelpAndExit(1)
    /\ UNCHANGED input

SetNewAdminClient ==
    /\ cmd = "set" /\ pc = "client"
    /\ NewAdminClient("validate")
    /\ UNCHANGED input

SetValidateIDType ==
    /\ cmd = "set" /\ pc = "validate"
    /\ trace' = Append(trace, [call |-> "validateIDType", idpType |-> Get(args, 1)])
    /\ IF ValidIDType(Get(args, 1))
       THEN pc' = "rpc" /\ UNCHANGED <<fatals, exitCode>>
       ELSE Fatal("IDP type must be one of [openid ldap]")
    /\ UNCHANGED <<err, e, restart, result, out, helpShown>>
    /\ UNCHANGED input

SetRPC ==
    /\ cmd = "set" /\ pc = "rpc"
    /\ trace' = Append(trace, [call |-> "AddOrUpdateIDPConfig",
                               idpType |-> Get(args, 1),
                               cfgName |-> ParseCfg(args).cfgName,
                               inputCfg |-> ParseCfg(args).inputCfg])
    /\ \E r \in {"nil", "error"}, rs \in BOOLEAN :
        /\ e' = r
        /\ IF r = "error"
           THEN /\ Fatal("Unable to set IDP config to server")
                /\ restart' = FALSE
           ELSE /\ pc' = "print"
                /\ restart' = rs
                /\ UNCHANGED <<fatals, exitCode>>
    /\ UNCHANGED <<err, result, out, helpShown>>
    /\ UNCHANGED input

SetPrint ==
    /\ cmd = "set" /\ pc = "print"
    /\ out' = Append(out, [msg |-> "configSetMessage",
                           targetAlias |-> Get(args, 0), restart |-> restart])
    /\ trace' = Append(trace, [call |-> "printMsg"])
    /\ ReturnNil
    /\ UNCHANGED <<err, e, restart, result, fatals, helpShown>>
    /\ UNCHANGED input

\* ----------------------------------------------------- actions: idp list
ListCheckArgs ==
    /\ cmd = "list" /\ pc = "start"
    /\ IF ListArityOK(args)
       THEN /\ pc' = "client"
            /\ UNCHANGED <<trace, err, e, restart, result, out, fatals,
                           helpShown, exitCode>>
       ELSE ShowCommandHelpAndExit(1)
    /\ UNCHANGED input

ListNewAdminClient ==
    /\ cmd = "list" /\ pc = "client"
    /\ NewAdminClient("rpc")
    /\ UNCHANGED input

ListRPC ==
    /\ cmd = "list" /\ pc = "rpc"
    /\ trace' = Append(trace, [call |-> "ListIDPConfig", idpType |-> OpenidIDPCfg])
    /\ \/ /\ e' = "error"
          /\ result' = <<>>
          /\ Fatal("Unable to list IDP config")
       \/ /\ e' = "nil"
          /\ result' \in SeqsUpTo(Items, MaxItems)
          /\ pc' = "print"
          /\ UNCHANGED <<fatals, exitCode>>
    /\ UNCHANGED <<err, restart, out, helpShown>>
    /\ UNCHANGED input

ListPrint ==
    /\ cmd = "list" /\ pc = "print"
    /\ out' = Append(out, [msg |-> "idpCfgList", items |-> result,
                           str |-> String(result)])
    /\ trace' = Append(trace, [call |-> "printMsg"])
    /\ ReturnNil
    /\ UNCHANGED <<err, e, restart, result, fatals, helpShown>>
    /\ UNCHANGED input

\* ------------------------------------------ actions: policy attach/detach
PolicyCheckArgs ==
    /\ cmd \in {"attach", "detach"} /\ pc = "start"
    /\ IF PolicyArityOK(args)
       THEN /\ pc' = "client"
            /\ UNCHANGED <<trace, err, e, restart, result, out, fatals,
                           helpShown, exitCode>>
       ELSE ShowCommandHelpAndExit(1)
    /\ UNCHANGED input

PolicyNewAdminClient ==
    /\ cmd \in {"attach", "detach"} /\ pc = "client"
    /\ NewAdminClient("rpc")
    /\ UNCHANGED input

\* client.AttachPolicy / client.DetachPolicy with the built request.
PolicyRPC ==
    /\ cmd \in {"attach", "detach"} /\ pc = "rpc"
    /\ trace' = Append(trace,
                  [call |-> IF cmd = "attach" THEN "AttachPolicy" ELSE "DetachPolicy",
                   req |-> BuildReq(args, user, group)])
    /\ e' \in {"nil", "error"}
    /\ pc' = "report"
    /\ UNCHANGED <<err, restart, result, out, fatals, helpShown, exitCode>>
    /\ UNCHANGED input

\* Variant: the messages are printed before the error is looked at.
PolicyReportEager ==
    /\ cmd \in {"attach", "detach"} /\ pc = "report"
    /\ out' = out \o PolicyMessages(BuildReq(args, user, group), cmd)
    /\ trace' = Append(trace, [call |-> "printMsg"])
    /\ IF e = "nil"
       THEN ReturnNil /\ UNCHANGED fatals
       ELSE Fatal(IF cmd = "attach" THEN "Unable to attach the policy"
                  ELSE "Unable to detach the policy")
    /\ UNCHANGED <<err, e, restart, result, helpShown>>
    /\ UNCHANGED input

\* The tail of userAttachOrDetachPolicy: print every message, or fail.
PolicyReport ==
    /\ cmd \in {"attach", "detach"} /\ pc = "report"
    /\ IF e = "nil"
       THEN /\ out' = out \o PolicyMessages(BuildReq(args, user, group), cmd)
            /\ trace' = Append(trace, [call |-> "printMsg"])
            /\ ReturnNil
            /\ UNCHANGED fatals
       ELSE /\ Fatal(IF cmd = "attach" THEN "Unable to attach the policy"
                     ELSE "Unable to detach the policy")
            /\ UNCHANGED <<out, trace>>
    /\ UNCHANGED <<err, e, restart, result, helpShown>>
    /\ UNCHANGED input

Next ==
    \/ SetCheckArgs
    \/ SetNewAdminClient
    \/ SetValidateIDType
    \/ SetRPC
    \/ SetPrint
    \/ ListCheckArgs
    \/ ListNewAdminClient
    \/ ListRPC
    \/ ListPrint
    \/ PolicyCheckArgs
    \/ PolicyNewAdminClient
    \/ PolicyRPC
    \/ PolicyReport

Spec == Init /\ [][Next]_vars

\* ------------------------------------------------------------ properties
PolicyCmd == cmd \in {"attach", "detach"}
Exited == pc = "exited"
CallsOf(names) == SelectSeq(trace, LAMBDA c : c.call \in names)
RPCNames == {"AddOrUpdateIDPConfig", "ListIDPConfig", "AttachPolicy", "DetachPolicy"}
NetworkCalls == CallsOf(RPCNames \cup {"newAdminClient"})
HasChar(s, c) == c \in {s[i] : i \in 1..Len(s)}
MaxOf(S) == CHOOSE m \in S : \A x \in S : x <= m

WrongArity ==
    \/ cmd = "set" /\ Len(args) < 3
    \/ cmd = "list" /\ Len(args) # 1
    \/ PolicyCmd /\ Len(args) < 2

\* C1: an invocation with a wrong number of positional arguments never
\* resolves a session and never issues an admin RPC; it shows the help and
\* exits with code 1.
C1_UsageErrorNeverReachesNetwork ==
    WrongArity =>
        /\ NetworkCalls = <<>>
        /\ err = "unset" /\ e = "unset"
        /\ pc \in {"start", "exited"}
        /\ Exited => helpShown /\ exitCode = 1 /\ out = <<>>

C1_Witness ==
    /\ cmd = "set" /\ Len(args) = 2 /\ args[2] = ldap
    /\ Exited /\ helpShown /\ exitCode = 1

\* C2: in `idp set` the provider-kind check precedes session resolution,
\* and an invocation with an unknown provider kind ends fatally without
\* newAdminClient having been called and without any RPC.
C2_KindCheckedBeforeSession ==
    cmd = "set" =>
        /\ \A i \in 1..Len(trace) :
              trace[i].call = "newAdminClient" =>
                  \E j \in 1..(i - 1) : trace[j].call = "validateIDType"
        /\ (Len(args) >= 3 /\ args[2] \notin {ldap, openid}) =>
              /\ NetworkCalls = <<>>
              /\ Exited => exitCode # 0

\* Offset of the i-th token inside the single-space join of toks.
RECURSIVE Offset(_, _)
Offset(toks, i) ==
    IF i = 1 THEN 0 ELSE Offset(toks, i - 1) + Len(toks[i - 1]) + 1

\* body is toks laid out left to right with exactly one space between
\* neighbours.
IsSpaceJoin(body, toks) ==
    IF toks = <<>> THEN body = <<>>
    ELSE /\ Len(body) = Offset(toks, Len(toks)) + Len(toks[Len(toks)])
         /\ \A i \in 1..Len(toks) :
               SubSeq(body, Offset(toks, i) + 1, Offset(toks, i) + Len(toks[i]))
                   = toks[i]
         /\ \A i \in 2..Len(toks) : body[Offset(toks, i)] = " "

\* C3: the name/body split of `idp set`: a third token without `=` is the
\* configuration name and the body is the space join of the tokens from the
\* fourth on; otherwise the name is empty and the body is the space join of
\* the tokens from the third on.
C3_NameBodySplit ==
    \A k \in 1..Len(trace) :
        trace[k].call = "AddOrUpdateIDPConfig" =>
            /\ Len(args) >= 3
            /\ IF ~HasChar(args[3], "=")
               THEN /\ trace[k].cfgName = args[3]
                    /\ IsSpaceJoin(trace[k].inputCfg, SubSeq(args, 4, Len(args)))
               ELSE /\ trace[k].cfgName = <<>>
                    /\ IsSpaceJoin(trace[k].inputCfg, SubSeq(args, 3, Len(args)))

C3_Witness ==
    /\ cmd = "set" /\ Len(trace) >= 3
    /\ trace[3].call = "AddOrUpdateIDPConfig"
    /\ trace[3].cfgName = dex
    /\ trace[3].inputCfg = <<"k", "=", "v", " ", "=">>

\* C4: on success of the attach/detach RPC there is exactly one outcome
\* message per policy, the i-th carrying the i-th policy of the command
\* line, and all messages carry the same principal and the same isGroup.
C4_OneMessagePerPolicyInOrder ==
    (PolicyCmd /\ Exited /\ e = "nil") =>
        /\ Len(out) = Len(args) - 1
        /\ \A i \in 1..Len(out) :
              /\ out[i].Policy = args[i + 1]
              /\ out[i].UserOrGroup = out[1].UserOrGroup
              /\ out[i].IsGroup = out[1].IsGroup

C4_Witness ==
    /\ cmd = "attach" /\ Exited /\ e = "nil" /\ user = bob /\ group = <<>>
    /\ Len(out) = 3
    /\ out[1].Policy = dex /\ out[2].Policy = ldap /\ out[3].Policy = dex

\* C5: when the attach/detach RPC fails, no outcome message is printed,
\* exactly one fatal diagnostic is printed and the exit code is non-zero;
\* no outcome message is printed before the RPC has returned.
C5_AllOrNothingOnFailure ==
    PolicyCmd =>
        /\ e = "error" => out = <<>>
        /\ (e = "error" /\ Exited) => Len(fatals) = 1 /\ exitCode # 0
        /\ out # <<>> => e # "unset" /\ CallsOf({"AttachPolicy", "DetachPolicy"}) # <<>>

C5_Witness ==
    /\ cmd = "attach" /\ Len(args) = 4 /\ e = "error" /\ Exited
    /\ out = <<>> /\ fatals = <<"Unable to attach the policy">>

\* C6: every request handed to AttachPolicy or DetachPolicy has exactly one
\* of its user and group fields non-empty.
C6_ExactlyOnePrincipalDispatched ==
    \A k \in 1..Len(trace) :
        trace[k].call \in {"AttachPolicy", "DetachPolicy"} =>
            (trace[k].req.User = <<>>) # (trace[k].req.Group = <<>>)

\* C7: when exactly one of user/group is given, every outcome message has
\* IsGroup true exactly when the group is the one given, and UserOrGroup is
\* the value given.
C7_IsGroupMatchesPrincipal ==
    (PolicyCmd /\ ((user = <<>>) # (group = <<>>))) =>
        \A i \in 1..Len(out) :
            /\ out[i].IsGroup = (group # <<>>)
            /\ out[i].UserOrGroup = (IF user # <<>> THEN user ELSE group)

C7_Witness ==
    /\ cmd = "detach" /\ user = <<>> /\ group = legal
    /\ Len(out) >= 1 /\ out[1].IsGroup /\ out[1].UserOrGroup = legal

\* C8: every `idp set` invocation that reaches AddOrUpdateIDPConfig sends a
\* non-empty body.
C8_BodyNeverEmpty ==
    \A k \in 1..Len(trace) :
        trace[k].call = "AddOrUpdateIDPConfig" => trace[k].inputCfg # <<>>

Displayed(item) == IF item.Name = <<"_">> THEN defaultName ELSE item.Name

\* C9: the name column is max(4, longest displayed name) + 2 wide and the
\* role-ARN column max(7, longest roleARN) + 2, `_` being measured and
\* shown as `(default)`; one more row never narrows a column, and every
\* cell fits its column with its padding.
C9_ColumnWidths ==
    \A k \in 1..Len(out) :
        out[k].msg = "idpCfgList" =>
            LET items == out[k].items
                str == out[k].str
                rows == 1..Len(items)
            IN /\ str.maxNameWidth =
                     MaxOf({4} \cup {Len(Displayed(items[r])) : r \in rows}) + 2
               /\ str.maxRoleARNWidth =
                     MaxOf({7} \cup {Len(items[r].RoleARN) : r \in rows}) + 2
               /\ Len(str.lines) = Len(items)
               /\ \A r \in rows :
                     /\ str.lines[r].name.text = Displayed(items[r])
                     /\ str.lines[r].arn.text = items[r].RoleARN
                     /\ Len(Displayed(items[r])) + 2 <= str.maxNameWidth
                     /\ Len(items[r].RoleARN) + 2 <= str.maxRoleARNWidth
                     /\ ~str.lines[r].name.wrapped
                     /\ ~str.lines[r].arn.wrapped
               /\ \A x \in Items :
                     /\ String(Append(items, x)).maxNameWidth >= str.maxNameWidth
                     /\ String(Append(items, x)).maxRoleARNWidth >= str.maxRoleARNWidth

C9_Witness ==
    /\ cmd = "list" /\ Exited /\ Len(out) = 1
    /\ Len(result) = 2 /\ result[1].Name = <<"_">> /\ result[2].Name = svc
    /\ out[1].str.maxNameWidth = 11
    /\ out[1].str.lines[1].name.faint /\ ~out[1].str.lines[2].name.faint

\* C10: a run is linear: at most one session resolution and at most one
\* admin RPC, no call repeated; a result is printed only after the RPC
\* succeeded; exit code 0 only after a successful RPC and a printed result;
\* a failed session resolution ends the run fatally before any RPC.
C10_LinearRun ==
    /\ Len(CallsOf({"newAdminClient"})) <= 1
    /\ Len(CallsOf(RPCNames)) <= 1
    /\ \A i, j \in 1..Len(trace) : i # j => trace[i].call # trace[j].call
    /\ CallsOf(RPCNames) # <<>> => err = "nil"
    /\ out # <<>> => e = "nil" /\ CallsOf(RPCNames) # <<>>
    /\ (Exited /\ exitCode = 0) => e = "nil" /\ out # <<>>
    /\ err = "error" =>
          /\ Exited /\ exitCode # 0 /\ Len(fatals) = 1
          /\ CallsOf(RPCNames) = <<>> /\ out = <<>>

C10_Witness ==
    /\ cmd = "list" /\ Exited /\ exitCode = 0 /\ Len(out) = 1
    /\ Len(trace) = 3 /\ trace[1].call = "newAdminClient"
    /\ trace[2].call = "ListIDPConfig" /\ trace[3].call = "printMsg"

====
